---- MODULE Spec2Model ----
(***************************************************************************)
(* A model of the nixos-cache-signing-server: the SRI hash to nix base-32  *)
(* conversion and the path-info fingerprint (src/src/nix.rs), and the      *)
(* request handlers of src/src/main.rs with the error responses of         *)
(* src/src/error.rs.                                                       *)
(*                                                                         *)
(* Text is a sequence of one-character strings, a byte is 0..255.          *)
(***************************************************************************)
EXTENDS Integers, Sequences, FiniteSets, TLC

VARIABLES
    wire,               \* the path-info record as received (narHash still text)
    pc,                 \* position of the fingerprint computation
    nar_hash,           \* SRIHash: [algorithm, digest] once parsed
    digest_bytes,       \* to_nix_base32: the decoded digest
    digest_base32_len,  \* to_nix_base32: the number of characters to emit
    n,                  \* to_nix_base32: characters still to emit (loop index + 1)
    base32_digest,      \* to_nix_base32: the characters emitted so far
    base32_nar_hash,    \* the NixBase32 value to_nix_base32 returned
    fingerprint,        \* what PathInfo::fingerprint returned
    valid_fingerprint,  \* what valid_path_info_fingerprint returned
    outcome,            \* how the computation ended
    key_files,          \* /sign-nar: key path -> text of the file, or Unreadable
    keypair_map,        \* /sign-nar: the configured keys, public key -> key path
    rpc,                \* /sign-nar: position of the request
    todo,               \* /sign-nar: the keys the request has not signed with yet
    secret_key_path,    \* /sign-nar: the key path being read
    encoded_secret_key, \* /sign-nar: the text read from it
    tokens,             \* /sign-nar: the signature tokens made so far
    sign_calls,         \* /sign-nar: key path -> calls of crypto_sign_detached
    response,           \* /sign-nar: the response, once there is one
    path_exists,        \* /sign: the store path is a file that exists
    store_valid,        \* /sign: the store knows the path
    signatures,         \* /sign: the signatures the store holds for the path
    spc,                \* /sign: request -> position of its handler
    nix_path_infos,     \* /sign: request -> the last query output it parsed
    original_signatures,     \* /sign: request -> signatures of its first query
    newly_signed_signatures, \* /sign: request -> signatures of its second query
    sign_response       \* /sign: request -> its response, once there is one

hashVars == <<wire, pc, nar_hash, digest_bytes, digest_base32_len, n,
              base32_digest, base32_nar_hash, fingerprint, valid_fingerprint,
              outcome>>

realisationVars == <<key_files, keypair_map, rpc, todo, secret_key_path,
                     encoded_secret_key, tokens, sign_calls, response>>

signVars == <<path_exists, store_valid, signatures, spc, nix_path_infos,
              original_signatures, newly_signed_signatures, sign_response>>

vars == <<hashVars, realisationVars, signVars>>

(***************************************************************************)
(* Text helpers                                                            *)
(***************************************************************************)
\* a string literal as text
Chars(s) == [i \in 1..Len(s) |-> SubSeq(s, i, i)]

RECURSIVE Pow2(_)
Pow2(k) == IF k = 0 THEN 1 ELSE 2 * Pow2(k - 1)

Range(s) == {s[i] : i \in 1..Len(s)}

(***************************************************************************)
(* base64: general_purpose::STANDARD.decode (alphabet of RFC 4648,         *)
(* canonical padding required, trailing bits must be zero)                 *)
(***************************************************************************)
B64_ALPHABET ==
    Chars("ABCDEFGHIJKLMNOPQRSTUVWXYZabcdefghijklmnopqrstuvwxyz0123456789+/")

B64Symbols == Range(B64_ALPHABET)

\* symbol -> its six bits
B64Index ==
    [c \in B64Symbols |-> (CHOOSE k \in 1..Len(B64_ALPHABET) : B64_ALPHABET[k] = c) - 1]

B64Value(c) == B64Index[c]

RECURSIVE PadCount(_)
PadCount(t) ==
    IF Len(t) > 0 /\ t[Len(t)] = "=" THEN 1 + PadCount(SubSeq(t, 1, Len(t) - 1))
    ELSE 0

\* the text is one STANDARD.decode accepts
B64Valid(t) ==
    LET p == PadCount(t)
        d == Len(t) - p
    IN  /\ Len(t) % 4 = 0
        /\ p <= 2
        /\ \A k \in 1..d : t[k] \in B64Symbols
        /\ p = 1 => B64Value(t[d]) % 4 = 0
        /\ p = 2 => B64Value(t[d]) % 16 = 0

\* the bytes of an accepted text: byte k takes the 8 bits at bit offset 8k
B64Bytes(t) ==
    LET d == Len(t) - PadCount(t)
        v(k) == B64Value(t[k + 1])
    IN  [k \in 1..((d * 6) \div 8) |->
            LET s == (8 * (k - 1)) \div 6
                o == (8 * (k - 1)) % 6
            IN  ((v(s) * Pow2(o + 2)) % 256) + (v(s + 1) \div Pow2(4 - o))]

B64Decode(t) ==
    IF B64Valid(t) THEN [ok |-> TRUE, bytes |-> B64Bytes(t)]
    ELSE [ok |-> FALSE, bytes |-> <<>>]

(***************************************************************************)
(* nix.rs: SRIHash, NixHashType, NixBase32                                 *)
(***************************************************************************)
\* the algorithms the SRI parser knows
SriAlgorithms == {"sha1", "sha256", "sha384", "sha512"}

\* position of the first "-" of a text, 0 when there is none
FirstDash(t) ==
    IF \E k \in 1..Len(t) : t[k] = "-"
    THEN CHOOSE k \in 1..Len(t) : t[k] = "-" /\ \A m \in 1..(k - 1) : t[m] # "-"
    ELSE 0

\* hash.parse::<ssri::Hash>(): "<algorithm>-<digest>", split on "-"; the
\* digest is kept as text, it is neither decoded nor measured here
deserialize_sri_hash(t) ==
    LET k    == FirstDash(t)
        rest == SubSeq(t, k + 1, Len(t))
        e    == FirstDash(rest)
        tag  == SubSeq(t, 1, k - 1)
    IN  IF k = 0 \/ ~(\E a \in SriAlgorithms : Chars(a) = tag)
        THEN [ok |-> FALSE, algorithm |-> "", digest |-> <<>>]
        ELSE [ok |-> TRUE,
              algorithm |-> CHOOSE a \in SriAlgorithms : Chars(a) = tag,
              digest |-> IF e = 0 THEN rest ELSE SubSeq(rest, 1, e - 1)]

\* TryFrom<ssri::Algorithm> for NixHashType
NixHashTypes == {"sha1", "sha256", "sha512"}

NixHashTypeTryFrom(algorithm) ==
    IF algorithm \in NixHashTypes
    THEN [ok |-> TRUE, hash_type |-> algorithm]
    ELSE [ok |-> FALSE, hash_type |-> ""]

BASE32_CHARS == Chars("0123456789abcdfghijklmnpqrsvwxyz")

RECURSIVE BitOr(_, _)
BitOr(a, b) ==
    IF a = 0 THEN b
    ELSE IF b = 0 THEN a
    ELSE (IF a % 2 = 1 \/ b % 2 = 1 THEN 1 ELSE 0) + 2 * BitOr(a \div 2, b \div 2)

\* u8::checked_shr(s).unwrap_or(0) and u8::checked_shl(s).unwrap_or(0)
CheckedShr(byte, s) == IF s >= 8 THEN 0 ELSE byte \div Pow2(s)
CheckedShl(byte, s) == IF s >= 8 THEN 0 ELSE (byte * Pow2(s)) % 256

\* Base32Len rounding the bit count up by a whole character
Base32LenRounded(digest_len) == (digest_len * 8) \div 5 + 1

\* (digest_len * 8 - 1) / 5 + 1, for digest_len >= 1
Base32Len(digest_len) == (digest_len * 8 - 1) \div 5 + 1

\* Base32Char without the bits of the next byte
Base32CharNoCarry(bytes, m) ==
    LET b == m * 5
        i == b \div 8
        j == b % 8
        x == CheckedShr(bytes[i + 1], j)
    IN  BASE32_CHARS[(x % Len(BASE32_CHARS)) + 1]

\* let b = n * 5; let i = b / 8; let j = b % 8, for index m (0-based)
ByteIndex(m) == (m * 5) \div 8
BitOffset(m) == (m * 5) % 8

\* the amounts handed to checked_shr and to checked_shl
ShrAmount(m) == BitOffset(m)
ShlAmount(m) == 8 - BitOffset(m)

\* ReadsNextByte giving up the next byte one byte early
ReadsNextByteEarly(digest_len, m) == ~(ByteIndex(m) >= digest_len - 2)

\* the else branch of `if i >= digest_len - 1`, the one that reads
\* digest_bytes[i + 1]
ReadsNextByte(digest_len, m) == ~(ByteIndex(m) >= digest_len - 1)

\* the body of the loop of to_nix_base32 for index m (0-based), bytes 1-based here
Base32Char(bytes, m) ==
    LET digest_len == Len(bytes)
        i == ByteIndex(m)
        x == CheckedShr(bytes[i + 1], ShrAmount(m))
        y == IF ReadsNextByte(digest_len, m)
             THEN CheckedShl(bytes[i + 2], ShlAmount(m))
             ELSE 0
        c == BitOr(x, y)
    IN  BASE32_CHARS[(c % Len(BASE32_CHARS)) + 1]

\* NixBase32::to_string
NixBase32ToString(b32) == Chars(b32.hash_type) \o <<":">> \o b32.digest

(***************************************************************************)
(* nix.rs: PathInfo::fingerprint, and main.rs: valid_path_info_fingerprint *)
(***************************************************************************)
DIGITS == Chars("0123456789")

\* u64::to_string
RECURSIVE ToDecimal(_)
ToDecimal(k) ==
    IF k < 10 THEN <<DIGITS[k + 1]>>
    ELSE Append(ToDecimal(k \div 10), DIGITS[(k % 10) + 1])

\* [String]::join(sep): the items in their order, sep between neighbours
RECURSIVE Join(_, _)
Join(items, sep) ==
    IF Len(items) = 0 THEN <<>>
    ELSE IF Len(items) = 1 THEN items[1]
    ELSE items[1] \o sep \o Join(Tail(items), sep)

\* array.into_iter().collect::<String>()
RECURSIVE Collect(_)
Collect(parts) == IF Len(parts) = 0 THEN <<>> ELSE parts[1] \o Collect(Tail(parts))

\* PathInfoFingerprint with a separator after every reference
PathInfoFingerprintTrailing(store_path, base32, nar_size, references) ==
    Collect(<<Chars("1;"), store_path, <<";">>, NixBase32ToString(base32),
              <<";">>, ToDecimal(nar_size), <<";">>,
              Collect([k \in 1..Len(references) |-> references[k] \o <<",">>])>>)

\* PathInfo::fingerprint once to_nix_base32 has returned base32
PathInfoFingerprint(store_path, base32, nar_size, references) ==
    LET nar_size_string == ToDecimal(nar_size)
        references_string == Join(references, <<",">>)
        base32_nar_hash_string == NixBase32ToString(base32)
    IN  Collect(<<Chars("1;"), store_path, <<";">>, base32_nar_hash_string,
                  <<";">>, nar_size_string, <<";">>, references_string>>)

valid_path_info_fingerprint(store_path, base32_text, nar_size, references) ==
    LET nar_size_str == ToDecimal(nar_size)
        references_str == Join(references, <<",">>)
    IN  Collect(<<Chars("1;"), store_path, <<";">>, base32_text,
                  <<";">>, nar_size_str, <<";">>, references_str>>)

(***************************************************************************)
(* The inputs                                                              *)
(***************************************************************************)
MaxDigestText == 4      \* longest enumerated base64 digest text
MaxRefs == 2            \* most references of an enumerated path info

\* enumerated digest characters: three base64 symbols (0, 48, 63), the padding
\* and a character outside the alphabet
DigestChars == {"A", "w", "/", "=", "!"}

TextsUpTo(S, m) == UNION {[1..k -> S] : k \in 0..m}

\* the tags: the algorithms of the SRI parser and one it does not know
Tags == SriAlgorithms \cup {"md5"}

\* the hash of test.rs, and digests of 20, 7 and 64 bytes
GoldenHash == Chars("sha256-sXrPtjqhSoc2u0YfM1HVZThknkSYuRuHdtKCB6wkDFo=")
LongHashes ==
    { GoldenHash,
      Chars("sha1-/////////////////////////wA="),
      Chars("sha384-AAAAAAAA/w=="),
      Chars("sha512-") \o [k \in 1..84 |-> "/"] \o Chars("/w==") }

HashTexts ==
    {Chars(t) \o <<"-">> \o d : t \in Tags, d \in TextsUpTo(DigestChars, MaxDigestText)}
        \cup LongHashes \cup {Chars("sha256")}

GoldenPath == Chars("/nix/store/mdi7lvrn2mx7rfzv3fdq3v5yw8swiks6-hello-2.12.1")
GoldenRefs ==
    << Chars("/nix/store/aw2fw9ag10wr9pf0qk4nk5sxi0q0bn56-glibc-2.37-8"),
       Chars("/nix/store/mdi7lvrn2mx7rfzv3fdq3v5yw8swiks6-hello-2.12.1") >>
GoldenSize == 226552

GoldenWire ==
    [narHash |-> GoldenHash, narSize |-> GoldenSize, path |-> GoldenPath,
     references |-> GoldenRefs]

StorePaths == {Chars("/b"), Chars("/a")}
NarSizes == {0, 9, 10, 4096}

\* every hash with one path info, and every path info with three hashes
WireInputs ==
    {[narHash |-> h, narSize |-> 10, path |-> Chars("/a"),
      references |-> <<Chars("/b"), Chars("/a")>>] : h \in HashTexts}
    \cup
    {[narHash |-> h, narSize |-> s, path |-> p, references |-> r] :
        h \in {Chars("sha1-/w=="), Chars("sha512-w/A="), Chars("sha256-AAAA")},
        s \in NarSizes, p \in StorePaths, r \in TextsUpTo(StorePaths, MaxRefs)}
    \cup {GoldenWire}

(***************************************************************************)
(* The fingerprint of a received path info, step by step                   *)
(***************************************************************************)
NoHash == [algorithm |-> "", digest |-> <<>>]
NoBase32 == [hash_type |-> "", digest |-> <<>>]

HashInit ==
    /\ wire \in WireInputs
    /\ pc = "wire"
    /\ nar_hash = NoHash
    /\ digest_bytes = <<>>
    /\ digest_base32_len = 0
    /\ n = 0
    /\ base32_digest = <<>>
    /\ base32_nar_hash = NoBase32
    /\ fingerprint = <<>>
    /\ valid_fingerprint = <<>>
    /\ outcome = "running"

\* serde: the narHash text becomes an SRIHash, or the record is refused
Deserialize ==
    /\ pc = "wire"
    /\ LET h == deserialize_sri_hash(wire.narHash)
       IN  IF h.ok
           THEN /\ nar_hash' = [algorithm |-> h.algorithm, digest |-> h.digest]
                /\ pc' = "fingerprint"
                /\ outcome' = outcome
           ELSE /\ nar_hash' = nar_hash
                /\ pc' = "done"
                /\ outcome' = "err_parse"
    /\ UNCHANGED <<wire, digest_bytes, digest_base32_len, n, base32_digest,
                   base32_nar_hash, fingerprint, valid_fingerprint>>
    /\ UNCHANGED <<realisationVars, signVars>>

\* how to_nix_base32 ends on an empty digest: 0 * 8 - 1 panics where overflow
\* is checked; where it wraps, the capacity (2^64 - 1) / 5 + 1 cannot be
\* allocated, and the first digest_bytes[i] is out of range
EmptyDigestCrashes == {"panic_overflow", "abort_alloc", "panic_index"}

\* to_nix_base32 up to its loop
ToNixBase32Decode ==
    /\ pc = "fingerprint"
    /\ LET d == B64Decode(nar_hash.digest)
       IN  IF ~d.ok
           THEN /\ pc' = "done"
                /\ outcome' = "err_decode"
                /\ UNCHANGED <<digest_bytes, digest_base32_len, n>>
           ELSE IF Len(d.bytes) = 0
           THEN /\ pc' = "done"
                /\ outcome' \in EmptyDigestCrashes
                /\ UNCHANGED <<digest_bytes, digest_base32_len, n>>
           ELSE /\ digest_bytes' = d.bytes
                /\ digest_base32_len' = Base32Len(Len(d.bytes))
                /\ n' = Base32Len(Len(d.bytes))
                /\ pc' = "loop"
                /\ outcome' = outcome
    /\ UNCHANGED <<wire, nar_hash, base32_digest, base32_nar_hash, fingerprint,
                   valid_fingerprint>>
    /\ UNCHANGED <<realisationVars, signVars>>

\* one turn of for n in (0..digest_base32_len).rev()
ToNixBase32Loop ==
    /\ pc = "loop"
    /\ n > 0
    /\ base32_digest' = Append(base32_digest, Base32Char(digest_bytes, n - 1))
    /\ n' = n - 1
    /\ UNCHANGED <<wire, pc, nar_hash, digest_bytes, digest_base32_len,
                   base32_nar_hash, fingerprint, valid_fingerprint, outcome>>
    /\ UNCHANGED <<realisationVars, signVars>>

\* after the loop: Ok(NixBase32 { hash_type: algorithm.try_into()?, digest })
ToNixBase32Return ==
    /\ pc = "loop"
    /\ n = 0
    /\ LET t == NixHashTypeTryFrom(nar_hash.algorithm)
       IN  IF t.ok
           THEN /\ base32_nar_hash' = [hash_type |-> t.hash_type, digest |-> base32_digest]
                /\ pc' = "collect"
                /\ outcome' = outcome
           ELSE /\ base32_nar_hash' = base32_nar_hash
                /\ pc' = "done"
                /\ outcome' = "err_algorithm"
    /\ UNCHANGED <<wire, nar_hash, digest_bytes, digest_base32_len, n,
                   base32_digest, fingerprint, valid_fingerprint>>
    /\ UNCHANGED <<realisationVars, signVars>>

\* PathInfo::fingerprint returns the collected string
FingerprintCollect ==
    /\ pc = "collect"
    /\ fingerprint' = PathInfoFingerprint(wire.path, base32_nar_hash, wire.narSize,
                                          wire.references)
    /\ pc' = "returned"
    /\ outcome' = "ok"
    /\ UNCHANGED <<wire, nar_hash, digest_bytes, digest_base32_len, n,
                   base32_digest, base32_nar_hash, valid_fingerprint>>
    /\ UNCHANGED <<realisationVars, signVars>>

\* valid_path_info_fingerprint on the same path, hash text, size and references
ValidPathInfoFingerprint ==
    /\ pc = "returned"
    /\ valid_fingerprint' =
          valid_path_info_fingerprint(wire.path, NixBase32ToString(base32_nar_hash),
                                      wire.narSize, wire.references)
    /\ pc' = "done"
    /\ UNCHANGED <<wire, nar_hash, digest_bytes, digest_base32_len, n,
                   base32_digest, base32_nar_hash, fingerprint, outcome>>
    /\ UNCHANGED <<realisationVars, signVars>>

(***************************************************************************)
(* error.rs: Report::into_response and AppError::response                  *)
(***************************************************************************)
AppErrors == {"MalformedSecretKey", "MissingStorePath"}

NoResponse == [status |-> 0, text |-> "", tokens |-> {}, error |-> ""]

AppErrorResponse(err) ==
    IF err = "MalformedSecretKey"
    THEN [status |-> 500, text |-> "Something went wront", tokens |-> {}, error |-> err]
    ELSE [status |-> 400, text |-> "Store path was missing", tokens |-> {}, error |-> err]

\* err names an AppError, or the cause of any other report
ReportIntoResponse(err) ==
    IF err \in AppErrors THEN AppErrorResponse(err)
    ELSE [status |-> 500, text |-> "Something went wrong", tokens |-> {}, error |-> err]

OkResponse(made) == [status |-> 200, text |-> "", tokens |-> made, error |-> ""]

(***************************************************************************)
(* main.rs: sign_realisation, the handler of /sign-nar                     *)
(***************************************************************************)
CRYPTO_SIGN_ED25519_SECRETKEYBYTES == 64

\* position of the first ":" of a text, 0 when there is none
FirstColon(t) ==
    IF \E k \in 1..Len(t) : t[k] = ":"
    THEN CHOOSE k \in 1..Len(t) : t[k] = ":" /\ \A m \in 1..(k - 1) : t[m] # ":"
    ELSE 0

\* crypto_sign_detached: the signature is a function of the message and the key
CryptoSignDetached(message, secret_key) ==
    [secret_key |-> secret_key, message |-> message]

\* the fingerprint sign_realisation signs
RealisationFingerprint ==
    valid_path_info_fingerprint(
        GoldenPath,
        Chars("sha256:0nhc4jn0g0njfs3ipfcq8jg68f35sm8k67s6pcv8fjm17avcyymi"),
        GoldenSize, GoldenRefs)

\* sign_fingerprint_with_secret_key with the key name left out of the token
sign_fingerprint_without_name(message, encoded) ==
    LET c == FirstColon(encoded)
        d == B64Decode(SubSeq(encoded, c + 1, Len(encoded)))
    IN  IF c = 0 THEN [kind |-> "panic", error |-> "todo", token |-> <<>>]
        ELSE IF ~d.ok THEN [kind |-> "err", error |-> "decode", token |-> <<>>]
        ELSE IF Len(d.bytes) # CRYPTO_SIGN_ED25519_SECRETKEYBYTES
        THEN [kind |-> "err", error |-> "eyre", token |-> <<>>]
        ELSE [kind |-> "ok", error |-> "",
              token |-> <<<<>>, CryptoSignDetached(message, d.bytes)>>]

\* sign_realisation from split_once(':') on: the token "{key_name}:{signature}",
\* an error report, or the panic of todo!()
sign_fingerprint_with_secret_key(message, encoded) ==
    LET c            == FirstColon(encoded)
        key_name     == SubSeq(encoded, 1, c - 1)
        secret_bytes == SubSeq(encoded, c + 1, Len(encoded))
        d            == B64Decode(secret_bytes)
    IN  IF c = 0 THEN [kind |-> "panic", error |-> "todo", token |-> <<>>]
        ELSE IF ~d.ok THEN [kind |-> "err", error |-> "decode", token |-> <<>>]
        ELSE IF Len(d.bytes) # CRYPTO_SIGN_ED25519_SECRETKEYBYTES
        THEN [kind |-> "err", error |-> "eyre", token |-> <<>>]
        ELSE [kind |-> "ok", error |-> "",
              token |-> <<key_name, CryptoSignDetached(message, d.bytes)>>]

(***************************************************************************)
(* The configured keys: NixKeypairMap, public key -> key path              *)
(***************************************************************************)
MaxKeys == 2            \* most key files configured
MaxBadFiles == 2        \* most key files that no longer hold their key

Unreadable == [readable |-> FALSE, text |-> <<>>]
File(t) == [readable |-> TRUE, text |-> t]

Rep(c, k) == [m \in 1..k |-> c]
Zeros64 == Rep("A", 84) \o Chars("AA==")   \* 64 bytes 0x00
Ones64  == Rep("/", 84) \o Chars("/w==")   \* 64 bytes 0xff

ValidKeyTexts ==
    {Chars("a:") \o Zeros64, Chars("b:") \o Zeros64, Chars("a:") \o Ones64}

BadKeyFiles ==
    { Unreadable,
      File(Chars("a") \o Zeros64),                        \* no ":"
      File(Chars("a:") \o Rep("A", 84)),                  \* 63 bytes
      File(Chars("a:") \o Rep("A", 84) \o Chars("AAA=")), \* 65 bytes
      File(Chars("a:") \o Zeros64 \o <<"\n">>) }          \* not base64

\* the public key of a well-formed secret key text: its name and the second
\* half of the secret key
secret_key_to_public_key(encoded) ==
    LET c == FirstColon(encoded)
        d == B64Decode(SubSeq(encoded, c + 1, Len(encoded)))
    IN  [name |-> SubSeq(encoded, 1, c - 1), key |-> SubSeq(d.bytes, 33, 64)]

\* the map built at startup from the key files, in their order: a later file
\* with the public key of an earlier one takes its place
LoadKeypairs(files) ==
    LET pubs == {secret_key_to_public_key(files[p].text) : p \in DOMAIN files}
    IN  [pub \in pubs |->
            CHOOSE p \in DOMAIN files :
                /\ secret_key_to_public_key(files[p].text) = pub
                /\ \A q \in DOMAIN files :
                      secret_key_to_public_key(files[q].text) = pub => q <= p]

ConfiguredPaths == {keypair_map[pub] : pub \in DOMAIN keypair_map}

\* the key files at startup, and the same with up to MaxBadFiles gone bad since
Damaged(files) ==
    {g \in [DOMAIN files -> {files[p] : p \in DOMAIN files} \cup BadKeyFiles] :
        /\ \A p \in DOMAIN files : g[p] = files[p] \/ g[p] \in BadKeyFiles
        /\ Cardinality({p \in DOMAIN files : g[p] # files[p]}) <= MaxBadFiles}

RealisationInit ==
    /\ \E k \in 1..MaxKeys : \E startup \in [1..k -> {File(t) : t \in ValidKeyTexts}] :
          /\ keypair_map = LoadKeypairs(startup)
          /\ key_files \in Damaged(startup)
          /\ sign_calls = [p \in 1..k |-> 0]
    /\ rpc = "idle"
    /\ todo = {}
    /\ secret_key_path = 0
    /\ encoded_secret_key = <<>>
    /\ tokens = {}
    /\ response = NoResponse

\* a request signs with every configured key
SignWithAllStart ==
    /\ rpc = "idle"
    /\ todo' = ConfiguredPaths
    /\ rpc' = "read"
    /\ UNCHANGED <<key_files, keypair_map, secret_key_path, encoded_secret_key,
                   tokens, sign_calls, response>>
    /\ UNCHANGED <<hashVars, signVars>>

\* the request answers once every key has signed
SignWithAllNext(rest) == IF rest = {} THEN "responded" ELSE "read"

\* ReadSecretKey passing over a key whose file cannot be read
ReadSecretKeySkipping ==
    /\ rpc = "read"
    /\ \E p \in todo :
          /\ secret_key_path' = p
          /\ IF key_files[p].readable
             THEN /\ encoded_secret_key' = key_files[p].text
                  /\ rpc' = "sign"
                  /\ UNCHANGED <<todo, response>>
             ELSE /\ encoded_secret_key' = encoded_secret_key
                  /\ todo' = todo \ {p}
                  /\ rpc' = SignWithAllNext(todo \ {p})
                  /\ response' = IF todo \ {p} = {} THEN OkResponse(tokens)
                                 ELSE response
    /\ UNCHANGED <<key_files, keypair_map, tokens, sign_calls>>
    /\ UNCHANGED <<hashVars, signVars>>

\* tokio::fs::read_to_string(secret_key_path).await?
ReadSecretKey ==
    /\ rpc = "read"
    /\ \E p \in todo :
          /\ secret_key_path' = p
          /\ IF key_files[p].readable
             THEN /\ encoded_secret_key' = key_files[p].text
                  /\ rpc' = "sign"
                  /\ response' = response
             ELSE /\ encoded_secret_key' = encoded_secret_key
                  /\ rpc' = "responded"
                  /\ response' = ReportIntoResponse("io")
    /\ UNCHANGED <<key_files, keypair_map, todo, tokens, sign_calls>>
    /\ UNCHANGED <<hashVars, signVars>>

\* the rest of sign_realisation, run without an await
SignRealisation ==
    /\ rpc = "sign"
    /\ LET r == sign_fingerprint_with_secret_key(RealisationFingerprint,
                                                 encoded_secret_key)
       IN  IF r.kind = "panic"
           THEN /\ rpc' = "panicked"
                /\ UNCHANGED <<todo, tokens, sign_calls, response>>
           ELSE IF r.kind = "err"
           THEN /\ rpc' = "responded"
                /\ response' = ReportIntoResponse(r.error)
                /\ UNCHANGED <<todo, tokens, sign_calls>>
           ELSE /\ tokens' = tokens \cup {r.token}
                /\ sign_calls' = [sign_calls EXCEPT ![secret_key_path] = @ + 1]
                /\ todo' = todo \ {secret_key_path}
                /\ rpc' = SignWithAllNext(todo \ {secret_key_path})
                /\ response' = IF todo \ {secret_key_path} = {}
                               THEN OkResponse(tokens \cup {r.token})
                               ELSE response
    /\ UNCHANGED <<key_files, keypair_map, secret_key_path, encoded_secret_key>>
    /\ UNCHANGED <<hashVars, signVars>>

(***************************************************************************)
(* main.rs: sign, the handler of /sign, with the store it reads and signs  *)
(***************************************************************************)
MaxRequests == 2        \* /sign requests in flight for the path
MaxForeign == 1         \* signatures other writers may add to the path

Requests == 1..MaxRequests

\* signatures are <<key name, number>>; the first is the one
\* `nix store sign --key-file ./secret-key` makes for the path
OurSignature == <<"test-1", 0>>
CacheSignature == <<"cache.nixos.org-1", 0>>
DecoySignature == <<"decoy", 0>>
ForeignSignatures == {<<"other", k>> : k \in 1..MaxForeign}

\* what `nix path-info --json <path>` prints: the record of the path, perhaps
\* followed by another; for a path the store does not know, nothing that
\* parses or an empty list
PathInfoOutputs ==
    IF store_valid
    THEN { [parsed |-> TRUE, infos |-> <<[signatures |-> signatures]>>],
           [parsed |-> TRUE, infos |-> <<[signatures |-> signatures],
                                         [signatures |-> {DecoySignature}]>>] }
    ELSE { [parsed |-> FALSE, infos |-> <<>>],
           [parsed |-> TRUE, infos |-> <<>>] }

\* no output of the query parsed yet
NoInfos == [parsed |-> FALSE, infos |-> <<>>]

SignInit ==
    /\ path_exists \in BOOLEAN
    /\ store_valid \in BOOLEAN
    /\ signatures \in SUBSET {CacheSignature, OurSignature}
    /\ spc = [r \in Requests |-> "start"]
    /\ nix_path_infos = [r \in Requests |-> NoInfos]
    /\ original_signatures = [r \in Requests |-> {}]
    /\ newly_signed_signatures = [r \in Requests |-> {}]
    /\ sign_response = [r \in Requests |-> NoResponse]

\* if !store_path.exists() { return Err("doesn't exist") }
SignExists(r) ==
    /\ spc[r] = "start"
    /\ IF path_exists
       THEN /\ spc' = [spc EXCEPT ![r] = "first_query"]
            /\ sign_response' = sign_response
       ELSE /\ spc' = [spc EXCEPT ![r] = "responded"]
            /\ sign_response' = [sign_response EXCEPT ![r] = ReportIntoResponse("eyre")]
    /\ UNCHANGED <<path_exists, store_valid, signatures, nix_path_infos,
                   original_signatures, newly_signed_signatures>>
    /\ UNCHANGED <<hashVars, realisationVars>>

\* a command of the handler cannot be run: the ? returns the io error
SignCommandFails(r) ==
    /\ spc[r] \in {"first_query", "store_sign", "second_query"}
    /\ spc' = [spc EXCEPT ![r] = "responded"]
    /\ sign_response' = [sign_response EXCEPT ![r] = ReportIntoResponse("io")]
    /\ UNCHANGED <<path_exists, store_valid, signatures, nix_path_infos,
                   original_signatures, newly_signed_signatures>>
    /\ UNCHANGED <<hashVars, realisationVars>>

\* the first `nix path-info --json`, serde_json::from_slice and
\* first().expect("Should have been a first path info")
SignFirstPathInfo(r) ==
    /\ spc[r] = "first_query"
    /\ \E out \in PathInfoOutputs :
          IF ~out.parsed
          THEN /\ spc' = [spc EXCEPT ![r] = "responded"]
               /\ sign_response' = [sign_response EXCEPT ![r] = ReportIntoResponse("json")]
               /\ UNCHANGED <<nix_path_infos, original_signatures>>
          ELSE /\ nix_path_infos' = [nix_path_infos EXCEPT ![r] = out]
               /\ IF Len(out.infos) = 0
                  THEN /\ spc' = [spc EXCEPT ![r] = "panicked"]
                       /\ UNCHANGED original_signatures
                  ELSE /\ spc' = [spc EXCEPT ![r] = "store_sign"]
                       /\ original_signatures' =
                             [original_signatures EXCEPT ![r] = out.infos[1].signatures]
               /\ sign_response' = sign_response
    /\ UNCHANGED <<path_exists, store_valid, signatures, newly_signed_signatures>>
    /\ UNCHANGED <<hashVars, realisationVars>>

\* `nix store sign --stdin --key-file ./secret-key`, waited for; its exit
\* status is not looked at, so a run that signs nothing goes unnoticed
SignStoreSign(r) ==
    /\ spc[r] = "store_sign"
    /\ \E signed \in BOOLEAN :
          signatures' = IF signed THEN signatures \cup {OurSignature} ELSE signatures
    /\ spc' = [spc EXCEPT ![r] = "second_query"]
    /\ UNCHANGED <<path_exists, store_valid, nix_path_infos, original_signatures,
                   newly_signed_signatures, sign_response>>
    /\ UNCHANGED <<hashVars, realisationVars>>

\* SignSecondPathInfo answering with any signature of the second query
SignSecondPathInfoAny(r) ==
    /\ spc[r] = "second_query"
    /\ \E out \in PathInfoOutputs :
          IF ~out.parsed
          THEN /\ spc' = [spc EXCEPT ![r] = "responded"]
               /\ sign_response' = [sign_response EXCEPT ![r] = ReportIntoResponse("json")]
               /\ UNCHANGED <<nix_path_infos, newly_signed_signatures>>
          ELSE /\ nix_path_infos' = [nix_path_infos EXCEPT ![r] = out]
               /\ IF Len(out.infos) = 0 \/ out.infos[1].signatures = {}
                  THEN /\ spc' = [spc EXCEPT ![r] = "panicked"]
                       /\ UNCHANGED <<newly_signed_signatures, sign_response>>
                  ELSE /\ newly_signed_signatures' =
                             [newly_signed_signatures EXCEPT ![r] = out.infos[1].signatures]
                       /\ spc' = [spc EXCEPT ![r] = "responded"]
                       /\ \E new_signature \in out.infos[1].signatures :
                             sign_response' =
                                [sign_response EXCEPT ![r] = OkResponse({new_signature})]
    /\ UNCHANGED <<path_exists, store_valid, signatures, original_signatures>>
    /\ UNCHANGED <<hashVars, realisationVars>>

\* the second `nix path-info --json`, then
\* newly_signed_signatures.difference(original_signatures).next().expect(..)
SignSecondPathInfo(r) ==
    /\ spc[r] = "second_query"
    /\ \E out \in PathInfoOutputs :
          IF ~out.parsed
          THEN /\ spc' = [spc EXCEPT ![r] = "responded"]
               /\ sign_response' = [sign_response EXCEPT ![r] = ReportIntoResponse("json")]
               /\ UNCHANGED <<nix_path_infos, newly_signed_signatures>>
          ELSE /\ nix_path_infos' = [nix_path_infos EXCEPT ![r] = out]
               /\ IF Len(out.infos) = 0
                  THEN /\ spc' = [spc EXCEPT ![r] = "panicked"]
                       /\ UNCHANGED <<newly_signed_signatures, sign_response>>
                  ELSE /\ newly_signed_signatures' =
                             [newly_signed_signatures EXCEPT ![r] = out.infos[1].signatures]
                       /\ LET new == out.infos[1].signatures \ original_signatures[r]
                          IN  IF new = {}
                              THEN /\ spc' = [spc EXCEPT ![r] = "panicked"]
                                   /\ sign_response' = sign_response
                              ELSE /\ spc' = [spc EXCEPT ![r] = "responded"]
                                   /\ \E new_signature \in new :
                                         sign_response' =
                                            [sign_response EXCEPT
                                                ![r] = OkResponse({new_signature})]
    /\ UNCHANGED <<path_exists, store_valid, signatures, original_signatures>>
    /\ UNCHANGED <<hashVars, realisationVars>>

\* another writer adds a signature to the path
ForeignSign ==
    /\ store_valid
    /\ \E s \in ForeignSignatures \ signatures : signatures' = signatures \cup {s}
    /\ UNCHANGED <<path_exists, store_valid, spc, nix_path_infos,
                   original_signatures, newly_signed_signatures, sign_response>>
    /\ UNCHANGED <<hashVars, realisationVars>>

SignIdle ==
    /\ path_exists = FALSE
    /\ store_valid = FALSE
    /\ signatures = {}
    /\ spc = <<>>
    /\ nix_path_infos = <<>>
    /\ original_signatures = <<>>
    /\ newly_signed_signatures = <<>>
    /\ sign_response = <<>>

RealisationIdle ==
    /\ key_files = <<>>
    /\ keypair_map = <<>>
    /\ rpc = "off"
    /\ todo = {}
    /\ secret_key_path = 0
    /\ encoded_secret_key = <<>>
    /\ tokens = {}
    /\ sign_calls = <<>>
    /\ response = NoResponse

HashIdle ==
    /\ wire = [narHash |-> <<>>, narSize |-> 0, path |-> <<>>, references |-> <<>>]
    /\ pc = "off"
    /\ nar_hash = NoHash
    /\ digest_bytes = <<>>
    /\ digest_base32_len = 0
    /\ n = 0
    /\ base32_digest = <<>>
    /\ base32_nar_hash = NoBase32
    /\ fingerprint = <<>>
    /\ valid_fingerprint = <<>>
    /\ outcome = "off"

(***************************************************************************)
(* The specifications                                                      *)
(***************************************************************************)
Init == HashInit /\ RealisationIdle /\ SignIdle

Next ==
    \/ Deserialize
    \/ ToNixBase32Decode
    \/ ToNixBase32Loop
    \/ ToNixBase32Return
    \/ FingerprintCollect
    \/ ValidPathInfoFingerprint

\* the fingerprint of a received path info
Spec == Init /\ [][Next]_vars

InitRealisation == HashIdle /\ RealisationInit /\ SignIdle

NextRealisation ==
    \/ SignWithAllStart
    \/ ReadSecretKey
    \/ SignRealisation

\* a /sign-nar request over the configured keys
SpecRealisation == InitRealisation /\ [][NextRealisation]_vars

InitSign == HashIdle /\ RealisationIdle /\ SignInit

NextSign ==
    \/ \E r \in Requests : SignExists(r)
    \/ \E r \in Requests : SignCommandFails(r)
    \/ \E r \in Requests : SignFirstPathInfo(r)
    \/ \E r \in Requests : SignStoreSign(r)
    \/ \E r \in Requests : SignSecondPathInfo(r)
    \/ ForeignSign

\* /sign requests for one store path, and the other writers of the store
SpecSign == InitSign /\ [][NextSign]_vars

(***************************************************************************)
(* The properties                                                          *)
(***************************************************************************)
RECURSIVE Pow10(_)
Pow10(k) == IF k = 0 THEN 1 ELSE 10 * Pow10(k - 1)

\* the decimal numeral of k, digit by digit
DecimalText(k) ==
    LET m == CHOOSE d \in 1..10 : k < Pow10(d) /\ (d = 1 \/ k >= Pow10(d - 1))
    IN  [p \in 1..m |-> DIGITS[((k \div Pow10(m - p)) % 10) + 1]]

\* the first k references, each but the first after a ","
RECURSIVE CommaJoined(_, _)
CommaJoined(refs, k) ==
    IF k = 0 THEN <<>>
    ELSE CommaJoined(refs, k - 1) \o (IF k > 1 THEN <<",">> ELSE <<>>) \o refs[k]

ExpectedFingerprint ==
    Chars("1;") \o wire.path \o Chars(";")
        \o Chars(base32_nar_hash.hash_type) \o Chars(":") \o base32_digest
        \o Chars(";") \o DecimalText(wire.narSize) \o Chars(";")
        \o CommaJoined(wire.references, Len(wire.references))

\* the fingerprint test_fingerprint_generation expects
GoldenFingerprint ==
    Chars("1;/nix/store/mdi7lvrn2mx7rfzv3fdq3v5yw8swiks6-hello-2.12.1;")
        \o Chars("sha256:0nhc4jn0g0njfs3ipfcq8jg68f35sm8k67s6pcv8fjm17avcyymi;226552;")
        \o Chars("/nix/store/aw2fw9ag10wr9pf0qk4nk5sxi0q0bn56-glibc-2.37-8,")
        \o Chars("/nix/store/mdi7lvrn2mx7rfzv3fdq3v5yw8swiks6-hello-2.12.1")

\* C1: once the nar hash has converted, PathInfo::fingerprint returns "1;" +
\* store path + ";" + hash type + ":" + base-32 digest + ";" + decimal nar size
\* + ";" + the references in the order given, "," between neighbours only, and
\* valid_path_info_fingerprint returns the same string for the same inputs.
C1_FingerprintFormat ==
    /\ base32_nar_hash # NoBase32 /\ pc # "collect" =>
          /\ outcome = "ok"
          /\ fingerprint = ExpectedFingerprint
          /\ wire = GoldenWire => fingerprint = GoldenFingerprint
    /\ pc = "done" /\ outcome = "ok" => valid_fingerprint = ExpectedFingerprint

\* C1 witness: a fingerprint of two references that are not in sorted order
C1_Witness ==
    /\ pc = "done"
    /\ outcome = "ok"
    /\ wire.references = <<Chars("/b"), Chars("/a")>>
    /\ valid_fingerprint = fingerprint

Bit(a, k) == (a \div Pow2(k)) % 2

\* a | b on bytes, bit by bit
OrOfBytes(a, b) ==
    LET or(k) == IF Bit(a, k) = 1 \/ Bit(b, k) = 1 THEN Pow2(k) ELSE 0
    IN  or(0) + or(1) + or(2) + or(3) + or(4) + or(5) + or(6) + or(7)

\* the value C2 gives for output index m of a digest
ClaimedValue(bytes, m) ==
    LET b == m * 5
        i == b \div 8
        j == b % 8
        y == IF i = Len(bytes) - 1 THEN 0
             ELSE IF 8 - j = 8 THEN 0
             ELSE (bytes[i + 2] * Pow2(8 - j)) % 256
    IN  OrOfBytes(bytes[i + 1] \div Pow2(j), y) % 32

\* C2: to_nix_base32 emits the characters for n = len-1 down to 0, the one
\* for n being BASE32_CHARS[((byte[i] >> j) | y) mod 32] with b = n*5,
\* i = b div 8, j = b mod 8, y = 0 at the last byte and the low 8 bits of
\* byte[i+1] << (8-j) otherwise (0 for a shift of 8); none is e, o, u or t.
C2_Base32Characters ==
    pc = "loop" \/ base32_digest # <<>> =>
        /\ Len(digest_bytes) >= 1
        /\ Len(base32_digest) = digest_base32_len - n
        /\ \A k \in 1..Len(base32_digest) :
              /\ base32_digest[k] =
                    Chars("0123456789abcdfghijklmnpqrsvwxyz")
                        [ClaimedValue(digest_bytes, digest_base32_len - k) + 1]
              /\ base32_digest[k] \notin {"e", "o", "u", "t"}

\* C2 witness: the loop has ended and a character took bits of two bytes
C2_Witness ==
    /\ pc = "loop"
    /\ n = 0
    /\ \E m \in 0..(digest_base32_len - 1) :
          LET i == (m * 5) \div 8
              j == (m * 5) % 8
          IN  /\ i < Len(digest_bytes) - 1
              /\ j > 3
              /\ digest_bytes[i + 2] % Pow2(j - 3) # 0

CeilDiv(a, b) == (a + b - 1) \div b

\* the nar hash has been parsed and its digest is base64 of some bytes
Decodable == nar_hash # NoHash /\ B64Decode(nar_hash.digest).ok
DecodedLen == Len(B64Decode(nar_hash.digest).bytes)

\* C3: for every raw digest of L bytes to_nix_base32 produces exactly
\* ceil(L*8/5) characters.
C3_Base32Length ==
    Decodable /\ pc \in {"collect", "returned", "done"} =>
        /\ outcome \notin EmptyDigestCrashes
        /\ outcome # "err_decode" => Len(base32_digest) = CeilDiv(DecodedLen * 8, 5)

\* C4: a hash whose algorithm is none of sha1, sha256, sha512 is rejected,
\* and the base-32 loop is never run on its digest.
\* (Stated for the digests of one byte or more, and for those that are not
\* base64: what becomes of an empty digest is C9's.)
C4_RejectedBeforeEncoding ==
    /\ nar_hash # NoHash
    /\ nar_hash.algorithm \notin {"sha1", "sha256", "sha512"}
    /\ ~(Decodable /\ DecodedLen = 0)
    =>  /\ base32_digest = <<>>
        /\ pc = "done" => outcome \in {"err_algorithm", "err_decode"}

\* C9: a hash whose digest decodes to no bytes converts to an empty text
\* digest, without a crash.
C9_EmptyDigest ==
    Decodable /\ DecodedLen = 0 /\ pc = "done" =>
        /\ outcome \notin EmptyDigestCrashes
        /\ outcome = "ok" => base32_nar_hash.digest = <<>>

HashSize(algorithm) ==
    CASE algorithm = "sha1" -> 20
      [] algorithm = "sha256" -> 32
      [] algorithm = "sha384" -> 48
      [] algorithm = "sha512" -> 64

\* C10: a hash that to_nix_base32 encodes, or that yields a NixBase32 value
\* or a fingerprint, has a digest of the size of its algorithm: 20 bytes for
\* sha1, 32 for sha256, 64 for sha512.
C10_DigestSize ==
    base32_digest # <<>> \/ base32_nar_hash # NoBase32 \/ fingerprint # <<>> =>
        Len(digest_bytes) = HashSize(nar_hash.algorithm)

Terminal == {"responded", "panicked"}

\* the key text has no ":" or its payload is base64 of other than 64 bytes
MalformedKeyText(t) ==
    LET c == FirstColon(t)
        d == B64Decode(SubSeq(t, c + 1, Len(t)))
    IN  c = 0 \/ (d.ok /\ Len(d.bytes) # 64)

\* C5: signing with a key text that has no ":", or whose payload decodes to
\* other than 64 bytes, fails with MalformedSecretKey and does not panic.
C5_MalformedSecretKey ==
    rpc \in Terminal /\ encoded_secret_key # <<>>
        /\ MalformedKeyText(encoded_secret_key) =>
            /\ rpc = "responded"
            /\ response.error = "MalformedSecretKey"

\* C6: a query that returns no record ends the request with a "not found"
\* error that differs from the internal error response; of the records of a
\* query only the first is used.
C6_MissingPath ==
    \A r \in Requests :
        /\ nix_path_infos[r].parsed /\ nix_path_infos[r].infos = <<>> =>
              /\ spc[r] = "responded"
              /\ sign_response[r].status # 0
              /\ sign_response[r] # ReportIntoResponse("eyre")
              /\ sign_response[r].text # "Something went wrong"
        /\ spc[r] \in {"store_sign", "second_query"} =>
              original_signatures[r] = nix_path_infos[r].infos[1].signatures

\* every configured key is still in its file
KeysIntact ==
    \A pub \in DOMAIN keypair_map :
        LET f == key_files[keypair_map[pub]]
        IN  /\ f.readable
            /\ f.text \in ValidKeyTexts
            /\ secret_key_to_public_key(f.text) = pub

\* the token was made with the key of the file
TokenOf(token, f) ==
    /\ token[1] = secret_key_to_public_key(f.text).name
    /\ SubSeq(token[2].secret_key, 33, 64) = secret_key_to_public_key(f.text).key
    /\ token[2].message = RealisationFingerprint

C11_ReturnsOwnSignature ==
    \A r \in Requests :
        sign_response[r].status = 200 => sign_response[r].tokens = {OurSignature}

\* C12: a token /sign returns is in the signature set of the second query and
\* not in the set of the first query of the same request, so a request whose
\* second set holds nothing new returns no token.
C12_TokenIsNew ==
    \A r \in Requests :
        /\ sign_response[r].tokens \subseteq
              newly_signed_signatures[r] \ original_signatures[r]
        /\ sign_response[r].status = 200 =>
              /\ spc[r] = "responded"
              /\ Cardinality(sign_response[r].tokens) = 1
        /\ newly_signed_signatures[r] \subseteq original_signatures[r] =>
              /\ sign_response[r].tokens = {}
              /\ sign_response[r].status # 200

\* C12 witness: one request returned the new signature, and the request that
\* found the path signed already returned nothing
C12_Witness ==
    \E r, q \in Requests :
        /\ sign_response[r] = OkResponse({OurSignature})
        /\ OurSignature \notin original_signatures[r]
        /\ spc[q] = "panicked"
        /\ OurSignature \in original_signatures[q]
        /\ newly_signed_signatures[q] = original_signatures[q]
        /\ sign_response[q] = NoResponse

\* C13: for every digest of L >= 1 bytes and every index of the loop of
\* to_nix_base32, the byte index i = (n*5) div 8 is below L, the byte after
\* it is read only when i < L-1, and both shift amounts are in 0..8: the loop
\* never reads outside the digest.
C13_LoopInBounds ==
    pc = "loop" =>
        LET L == Len(digest_bytes)
        IN  /\ L >= 1
            /\ n <= digest_base32_len
            /\ \A m \in 0..(n - 1) :
                  /\ ByteIndex(m) \in 0..(L - 1)
                  /\ ReadsNextByte(L, m) => ByteIndex(m) + 1 \in 0..(L - 1)
                  /\ ShrAmount(m) \in 0..8
                  /\ ShlAmount(m) \in 0..8

\* C13 witness: the loop stands before the character of the highest index,
\* which lies in the last byte alone, on a digest whose lower indices include
\* one that starts a byte (shift of 8 to the left) and one that ends the
\* byte before the last
C13_Witness ==
    /\ pc = "loop"
    /\ n = digest_base32_len
    /\ Len(digest_bytes) = 20
    /\ ByteIndex(n - 1) = Len(digest_bytes) - 1
    /\ ~ReadsNextByte(Len(digest_bytes), n - 1)
    /\ \E m \in 0..(n - 1) : ShlAmount(m) = 8 /\ ReadsNextByte(Len(digest_bytes), m)
    /\ \E m \in 0..(n - 1) :
          ReadsNextByte(Len(digest_bytes), m) /\ ByteIndex(m) = Len(digest_bytes) - 2

\* the number a base-32 character stands for
Base32Value(ch) == CHOOSE v \in 0..(Len(BASE32_CHARS) - 1) : BASE32_CHARS[v + 1] = ch

\* a digest with bit p (0 = lowest bit of the first byte) inverted
FlipBit(bytes, p) ==
    [bytes EXCEPT ![(p \div 8) + 1] =
        IF Bit(@, p % 8) = 1 THEN @ - Pow2(p % 8) ELSE @ + Pow2(p % 8)]

\* the text the loop of to_nix_base32 gives for a digest, highest index first
Base32Text(bytes) ==
    [k \in 1..Base32Len(Len(bytes)) |-> Base32Char(bytes, Base32Len(Len(bytes)) - k)]

\* C14: the base-32 encoding is injective on digests of equal length: the
\* alphabet has 32 different characters and bit p of the digest is bit p mod 5
\* of the character of index p div 5, so the digest can be read back from the
\* text; and no digest that differs from the encoded one in one bit has its text.
C14_Injective ==
    pc = "loop" /\ n = 0 =>
        LET L == Len(digest_bytes)
            len == Len(base32_digest)
        IN  /\ Len(BASE32_CHARS) = 32
            /\ \A a, b \in 1..32 : BASE32_CHARS[a] = BASE32_CHARS[b] => a = b
            /\ len * 5 >= L * 8
            /\ \A p \in 0..(L * 8 - 1) :
                  /\ Bit(Base32Value(base32_digest[len - (p \div 5)]), p % 5)
                        = Bit(digest_bytes[(p \div 8) + 1], p % 8)
                  /\ Base32Text(FlipBit(digest_bytes, p)) # base32_digest

\* C14 witness: the 64 bytes of all ones are encoded, and the one character
\* that differs after the highest bit is inverted is the first
C14_Witness ==
    /\ pc = "loop"
    /\ n = 0
    /\ Len(digest_bytes) = 64
    /\ \A k \in 1..64 : digest_bytes[k] = 255
    /\ Base32Value(base32_digest[1]) = 3
    /\ LET other == Base32Text(FlipBit(digest_bytes, 511))
       IN  /\ Base32Value(other[1]) = 1
           /\ \A k \in 2..Len(base32_digest) : other[k] = base32_digest[k]

====
